---- MODULE Spec2Model ----
(***************************************************************************)
(* The API access layer of the KB frontend: the axios instance with its    *)
(* 401 interceptor (services/api), AuthService and AuthStateManager        *)
(* (services/auth), the useAuth hook's login/logout handlers, and the      *)
(* RequestCache.                                                           *)
(*                                                                         *)
(* The browser runs one task at a time: a network response, the            *)
(* interceptor that handles it and the promise continuations it resolves   *)
(* run to completion before the next response is handled.  One action of   *)
(* this module is one such task.                                           *)
(***************************************************************************)
EXTENDS Integers, Sequences, FiniteSets, TLC

\* ------------------------------------------------------------------ bounds
NReq == 2                 \* requests that can be in flight at the same time
MaxTime == 4              \* the clock of the cache specification runs 0..MaxTime
MaxTtl == 2               \* ttl values passed to RequestCache.set are 0..MaxTtl
MaxCalls == 2             \* cachedApiService.get calls of one run
MaxRetries == 3           \* maxRetries passed to ApiService.retry is 0..MaxRetries
MaxDelay == 2             \* delay passed to ApiService.retry is 1..MaxDelay
MaxOps == 3               \* operations passed to ApiService.batch are 1..MaxOps
MaxListeners == 3         \* length of AuthStateManager.listeners

Req == 1..NReq

\* ------------------------------------------------------------ value spaces
Absent == "absent"        \* localStorage.getItem(...) === null
Null == "null"            \* the null RequestCache.get returns on a miss
NoEntry == [data |-> Null, timestamp |-> -1, ttl |-> -1]
NoData == "nodata"        \* the caller's promise has not resolved
NoResp == [status |-> -1, data |-> "none"]
Payloads == {"p1", ""}    \* response bodies of a GET: a truthy one, a falsy one
Keys == {"k1", "k2"}      \* cache keys: url + "_" + JSON.stringify(params)
AuthKeys == {"k1"}        \* the GETs of the authentication specification share a url
AuthPayloads == {"p1"}    \* and the server answers them with one body

\* the ttl RequestCache.set uses when the caller gives none: 5 * 60 * 1000
DefaultTtl == 300000

VARIABLES
    storage,     \* localStorage: the three durable keys
    req,         \* the requests: where each is in the interceptor pipeline
    cache,       \* RequestCache.cache : key -> {data, timestamp, ttl}
    now,         \* Date.now()
    authLost,    \* a refresh failure was handled and no login() resolved since
    notified,    \* what the listeners were last called with since authLost was set
    lastGet,     \* the RequestCache.get call of the latest step: key, time, value
    stored,      \* per key, the latest set() not overwritten or invalidated
    gets,        \* the cachedApiService.get calls, in the order they were issued
    rt,          \* the ApiService.retry call: loop index, invocations, waits
    bt,          \* the ApiService.batch call: the operations and what was logged
    subs,        \* AuthStateManager.listeners and the calls of the last notify
    loggedOut,   \* a logout() completed and no login() stored tokens since
    fault        \* an error the response interceptor handled and what it rejected with

\* what the authentication and cache steps leave alone
helpers == <<gets, rt, bt, subs, fault>>

vars == <<storage, req, cache, now, authLost, notified, lastGet, stored,
          gets, rt, bt, subs, loggedOut, fault>>

NoCall == [auth |-> FALSE, user |-> "nocall"]
NoGet == [key |-> "none", at |-> -1, ret |-> Null]
NoSet == [data |-> Null, at |-> -1, ttl |-> -1]
Gone == [data |-> Null, at |-> -1, ttl |-> -2]   \* a set() that was invalidated

\* --------------------------------------------------------------- Token store
EmptyStorage == [accessToken |-> Absent, refreshToken |-> Absent, user |-> Absent]

LoggedInStorage == [accessToken |-> "a0", refreshToken |-> "r0", user |-> "u0"]

\* a clearing that leaves the user snapshot behind
ClearTokensOnly(st) ==
    [st EXCEPT !.accessToken = Absent, !.refreshToken = Absent]

\* AuthService.clearLocalStorage
clearLocalStorage(st) ==
    [st EXCEPT !.accessToken = Absent, !.refreshToken = Absent, !.user = Absent]

\* AuthService.isAuthenticated: !!(token && user)
isAuthenticated(st) == st.accessToken # Absent /\ st.user # Absent

\* AuthService.getLocalUser: the parsed snapshot, or null
getLocalUser(st) == IF st.user # Absent THEN st.user ELSE Null

\* AuthStateManager.notifyStateChange: the pair every listener is called with
notifyStateChange(st) == [auth |-> isAuthenticated(st), user |-> getLocalUser(st)]

\* AuthService.isTokenExpiringSoon: no token counts as expiring; otherwise the
\* comparison of the token's exp claim with the clock, here the input soon
isTokenExpiringSoon(st, soon) == IF st.accessToken = Absent THEN TRUE ELSE soon

\* ------------------------------------------------------------- Request cache
EmptyCache == [k \in Keys |-> NoEntry]

\* RequestCache.set
CacheSet(c, key, data, ttl, t) ==
    [c EXCEPT ![key] = [data |-> data, timestamp |-> t, ttl |-> ttl]]

\* a lookup that forgets the expiry test
CacheGetValueNoExpiry(c, key, t) ==
    LET item == c[key] IN
    IF item = NoEntry THEN Null ELSE item.data

\* RequestCache.get, the value returned
CacheGetValue(c, key, t) ==
    LET item == c[key] IN
    IF item = NoEntry THEN Null
    ELSE IF t - item.timestamp > item.ttl THEN Null
    ELSE item.data

\* RequestCache.get, the cache it leaves (an expired entry is deleted)
CacheGetEvict(c, key, t) ==
    LET item == c[key] IN
    IF item # NoEntry /\ t - item.timestamp > item.ttl
    THEN [c EXCEPT ![key] = NoEntry]
    ELSE c

\* a delete that empties the whole map
CacheDeleteAll(c, key) == [k \in Keys |-> NoEntry]

\* RequestCache.delete
CacheDelete(c, key) == [c EXCEPT ![key] = NoEntry]

\* RequestCache.clear
CacheClear(c) == [k \in Keys |-> NoEntry]

\* JavaScript truthiness of a cached value: null and "" are falsy
Truthy(v) == v # Null /\ v # ""

\* ----------------------------------------------------------------- Requests
IdleReq == [pc |-> "idle", kind |-> "get", key |-> "k1", retry |-> FALSE,
            sends |-> 0, rf |-> "none", resp |-> NoResp,
            result |-> NoData, err |-> "none"]

\* what the server can answer to a request of each kind
Bodies(kind) ==
    CASE kind = "get" -> AuthPayloads
      [] kind = "patch" -> {"u1"}
      [] kind = "login" -> {"tokens", "notokens"}
      [] kind = "logout" -> {"ok"}
      [] kind = "refresh" -> {"a1"}
      [] kind = "init" -> {"u1"}

Replies(kind) ==
    [status : {200}, data : Bodies(kind)] \cup [status : {401, 500}, data : {"err"}]

\* the ApiError the response interceptor rejects with: built from the error of
\* the response at hand (message, code and details of error.response.data)
ApiError(rsp) == IF rsp.status = 401 THEN "Http401" ELSE "Http500"

\* an interceptor that forgets to mark the request
MarkRetryForgotten(q) == q

\* originalRequest._retry = true
MarkRetry(q) == [q EXCEPT !.retry = TRUE]


\* a settlement that hands a replayed request the rejection of its first 401
SettledWithFirstError(q, ok, rsp) ==
    [q EXCEPT !.pc = IF ok /\ ~q.retry THEN "done" ELSE "failed",
              !.resp = rsp,
              !.result = IF ok /\ ~q.retry THEN rsp.data ELSE NoData,
              !.err = IF ok /\ ~q.retry THEN "none" ELSE ApiError(q.resp)]

\* the promise of the instance settles: what the caller's promise becomes
Settled(q, ok, rsp) ==
    [q EXCEPT !.pc = IF ok THEN "done" ELSE "failed",
              !.resp = rsp,
              !.result = IF ok THEN rsp.data ELSE NoData,
              !.err = IF ok THEN "none" ELSE ApiError(rsp)]

\* AuthService.login after the POST resolved: the three keys are stored when
\* the response carries an access token
LoginStore(st, data) == IF data = "tokens" THEN LoggedInStorage ELSE st

\* AuthService.updateProfile after the PATCH resolved
ProfileStore(st, data) == [st EXCEPT !.user = data]

\* AuthService.refreshToken after the POST resolved
RefreshStore(st, access) == [st EXCEPT !.accessToken = access]

\* The continuation of the caller once the instance promise settles, after the
\* interceptor left the storage st0 and the flags lost0, noti0.
\*   get     cachedApiService.get: requestCache.set(cacheKey, data, config?.ttl)
\*   patch   AuthService.updateProfile
\*   login   AuthService.login, then useAuth.login: notifyStateChange()
\*   logout  AuthService.logout (finally: clearLocalStorage), then useAuth.logout
\*   refresh AuthService.autoRefreshToken around refreshToken
\*   init    useAuth.initializeAuth around getCurrentUser
Continue(r, q, ok, rsp, st0, lost0, noti0) ==
    /\ req' = [req EXCEPT ![r] = Settled(q, ok, rsp)]
    /\ CASE q.kind = "get" ->
              /\ cache' = IF ok THEN CacheSet(cache, q.key, rsp.data, DefaultTtl, now)
                          ELSE cache
              /\ storage' = st0 /\ authLost' = lost0 /\ notified' = noti0
         [] q.kind = "patch" ->
              /\ storage' = IF ok THEN ProfileStore(st0, rsp.data) ELSE st0
              /\ authLost' = lost0 /\ notified' = noti0
              /\ UNCHANGED cache
         [] q.kind = "login" ->
              /\ storage' = IF ok THEN LoginStore(st0, rsp.data) ELSE st0
              /\ authLost' = IF ok THEN FALSE ELSE lost0
              /\ notified' = IF ok THEN notifyStateChange(storage') ELSE noti0
              /\ UNCHANGED cache
         [] q.kind = "logout" ->
              /\ storage' = clearLocalStorage(st0)
              /\ notified' = notifyStateChange(storage')
              /\ authLost' = lost0
              /\ UNCHANGED cache
         [] q.kind = "refresh" ->
              /\ storage' = IF ok THEN RefreshStore(st0, rsp.data)
                            ELSE clearLocalStorage(st0)
              /\ authLost' = IF ok THEN lost0 ELSE TRUE
              /\ notified' = IF ok THEN noti0 ELSE NoCall
              /\ UNCHANGED cache
         [] q.kind = "init" ->
              /\ storage' = IF ok THEN st0 ELSE clearLocalStorage(st0)
              /\ authLost' = lost0 /\ notified' = noti0
              /\ UNCHANGED cache
    /\ UNCHANGED <<now, lastGet, stored, helpers>>
    /\ loggedOut' = CASE q.kind = "logout" -> TRUE
                      [] q.kind = "login" /\ ok /\ rsp.data = "tokens" -> FALSE
                      [] OTHER -> loggedOut

\* a request enters the instance: the request interceptor runs and it is sent
Send(q, kind, key) ==
    [IdleReq EXCEPT !.pc = "sent", !.kind = kind, !.key = key, !.sends = 1]

\* instance(originalRequest): the same config object is sent again
Replay(q) == [q EXCEPT !.pc = "replayed", !.sends = q.sends + 1, !.rf = "ok"]

\* A settled promise is consumed by its caller in the task that settled it:
\* nothing else runs while a request is in "done" or "failed".
NoneSettled == \A r \in Req : req[r].pc \notin {"done", "failed"}

\* nothing is on the wire and no caller is being resumed: only a new call of
\* the UI can make the client act again
Quiescent == \A r \in Req : req[r].pc = "idle"

\* a new request takes the first free slot (the slots are interchangeable)
Free(r) ==
    /\ NoneSettled
    /\ req[r].pc = "idle"
    /\ \A s \in Req : s < r => req[s].pc # "idle"

\* --------------------------------------------------------- calls of the UI
\* cachedApiService.get(url, {params}) with caching on
cachedGet(r, key) ==
    /\ Free(r)
    /\ LET cached == CacheGetValue(cache, key, now) IN
       /\ cache' = CacheGetEvict(cache, key, now)
       /\ req' = [req EXCEPT ![r] =
                    IF Truthy(cached)
                    THEN [IdleReq EXCEPT !.pc = "done", !.key = key, !.result = cached]
                    ELSE Send(req[r], "get", key)]
    /\ UNCHANGED <<storage, now, authLost, loggedOut, notified, lastGet, stored, helpers>>

\* AuthService.updateProfile
updateProfile(r) ==
    /\ Free(r)
    /\ req' = [req EXCEPT ![r] = Send(req[r], "patch", "k1")]
    /\ UNCHANGED <<storage, cache, now, authLost, loggedOut, notified, lastGet, stored, helpers>>

\* useAuth.login -> AuthService.login
login(r) ==
    /\ Free(r)
    /\ req' = [req EXCEPT ![r] = Send(req[r], "login", "k1")]
    /\ UNCHANGED <<storage, cache, now, authLost, loggedOut, notified, lastGet, stored, helpers>>

\* useAuth.logout -> AuthService.logout: the server call is skipped when no
\* refresh token is stored, and the finally block runs at once
logout(r) ==
    /\ Free(r)
    /\ IF storage.refreshToken # Absent
       THEN /\ req' = [req EXCEPT ![r] = Send(req[r], "logout", "k1")]
            /\ UNCHANGED <<storage, notified, loggedOut>>
       ELSE /\ req' = [req EXCEPT ![r] = [IdleReq EXCEPT !.pc = "done", !.kind = "logout"]]
            /\ storage' = clearLocalStorage(storage)
            /\ notified' = notifyStateChange(storage')
            /\ loggedOut' = TRUE
    /\ UNCHANGED <<cache, now, authLost, lastGet, stored, helpers>>

\* the setInterval callback of AuthStateManager.initialize:
\* if (authService.isAuthenticated()) authService.autoRefreshToken()
autoRefreshToken(r, soon) ==
    /\ Free(r)
    /\ isAuthenticated(storage)
    /\ isTokenExpiringSoon(storage, soon)
    /\ IF storage.refreshToken # Absent
       THEN /\ req' = [req EXCEPT ![r] = Send(req[r], "refresh", "k1")]
            /\ UNCHANGED <<storage, authLost, notified, loggedOut, fault>>
       ELSE \* refreshToken() throws 'No refresh token available'
            /\ req' = [req EXCEPT ![r] = [IdleReq EXCEPT !.pc = "failed",
                                            !.kind = "refresh", !.err = "NoRefreshToken"]]
            /\ storage' = clearLocalStorage(storage)
            /\ authLost' = TRUE
            /\ notified' = NoCall
    /\ UNCHANGED <<cache, now, lastGet, stored, loggedOut, helpers>>

\* ------------------------------------------------- the response interceptor
\* A response arrives for a request that is on the wire.
OnResponse(r, rsp) ==
    LET q == req[r] IN
    /\ NoneSettled
    /\ q.pc \in {"sent", "replayed"}
    /\ rsp \in Replies(q.kind)
    /\ IF rsp.status = 200
       THEN Continue(r, q, TRUE, rsp, storage, authLost, notified)
       ELSE IF rsp.status = 401 /\ ~q.retry
       THEN IF storage.refreshToken # Absent
            THEN \* axios.post(.../auth/token/refresh/) is issued and awaited
                 /\ req' = [req EXCEPT ![r] = [MarkRetry(q) EXCEPT !.pc = "refreshing",
                                                                    !.resp = rsp]]
                 /\ UNCHANGED <<storage, cache, now, authLost, loggedOut, notified, lastGet, stored, helpers>>
            ELSE Continue(r, MarkRetry(q), FALSE, rsp, storage, authLost, notified)
       ELSE Continue(r, q, FALSE, rsp, storage, authLost, notified)

\* the refresh call of the interceptor resolves: the token is stored and the
\* original request is sent again
OnRefreshOk(r) ==
    LET q == req[r] IN
    /\ NoneSettled
    /\ q.pc = "refreshing"
    /\ storage' = RefreshStore(storage, "a1")
    /\ req' = [req EXCEPT ![r] = Replay(q)]
    /\ UNCHANGED <<cache, now, authLost, loggedOut, notified, lastGet, stored, helpers>>

\* the refresh call of the interceptor rejects: the catch block removes the
\* three keys and redirects, then the interceptor rejects with the ApiError
\* built from the original error
OnRefreshFail(r) ==
    LET q == req[r] IN
    /\ NoneSettled
    /\ q.pc = "refreshing"
    /\ Continue(r, [q EXCEPT !.rf = "failed"], FALSE, q.resp,
                clearLocalStorage(storage), TRUE, NoCall)

\* the caller has its result; the slot serves the next request
Return(r) ==
    /\ req[r].pc \in {"done", "failed"}
    /\ req' = [req EXCEPT ![r] = IdleReq]
    /\ UNCHANGED <<storage, cache, now, authLost, loggedOut, notified, lastGet, stored, helpers>>

\* nothing was called yet
IdleRetry == [pc |-> "idle", maxRetries |-> 0, delay |-> 0, i |-> 0, calls |-> 0,
              errs |-> <<>>, waits |-> <<>>, lastError |-> "none", thrown |-> "none"]
IdleBatch == [pc |-> "idle", n |-> 0, ops |-> <<>>, order |-> <<>>, result |-> <<>>,
              thrown |-> "none", logged |-> <<>>]
NoNote == [op |-> "none", l |-> "none", pre |-> EmptyStorage, before |-> <<>>,
           calls |-> <<>>, logged |-> 0, propagated |-> FALSE]
NoListeners == [list |-> <<>>, note |-> NoNote]
NoFault == [origin |-> "none"]

\* ------------------------------------------------------------ specification
\* localStorage outlives the page: the module loads logged out or logged in
Init ==
    /\ storage \in {EmptyStorage, LoggedInStorage}
    /\ req = [r \in Req |-> IdleReq]
    /\ cache = EmptyCache
    /\ now = 0
    /\ authLost = FALSE
    /\ notified = NoCall
    /\ lastGet = NoGet
    /\ stored = [k \in Keys |-> NoSet]
    /\ gets = <<>>
    /\ rt = IdleRetry
    /\ bt = IdleBatch
    /\ subs = NoListeners
    /\ loggedOut = FALSE
    /\ fault = NoFault

Next ==
    \/ \E r \in Req, k \in AuthKeys : cachedGet(r, k)
    \/ \E r \in Req : updateProfile(r)
    \/ \E r \in Req : login(r)
    \/ \E r \in Req : logout(r)
    \/ \E r \in Req, soon \in BOOLEAN : autoRefreshToken(r, soon)
    \/ \E r \in Req, rsp \in Replies("get") \cup Replies("patch") \cup Replies("login")
                             \cup Replies("logout") \cup Replies("refresh") :
            OnResponse(r, rsp)
    \/ \E r \in Req : OnRefreshOk(r)
    \/ \E r \in Req : OnRefreshFail(r)
    \/ \E r \in Req : Return(r)

Spec == Init /\ [][Next]_vars


\* ---------------------------------------------- the cache, against the clock
\* requestCache.set(key, data, ttl) at the current time
CSet(key, data, ttl) ==
    /\ cache' = CacheSet(cache, key, data, ttl, now)
    /\ stored' = [stored EXCEPT ![key] = [data |-> data, at |-> now, ttl |-> ttl]]
    /\ lastGet' = NoGet
    /\ UNCHANGED <<storage, req, now, authLost, loggedOut, notified, helpers>>

\* requestCache.get(key) at the current time
CGet(key) ==
    /\ lastGet' = [key |-> key, at |-> now, ret |-> CacheGetValue(cache, key, now)]
    /\ cache' = CacheGetEvict(cache, key, now)
    /\ UNCHANGED <<storage, req, now, authLost, loggedOut, notified, stored, helpers>>

\* requestCache.delete(key), also what cachedApiService.deleteCache calls
CDelete(key) ==
    /\ cache' = CacheDelete(cache, key)
    /\ stored' = [stored EXCEPT ![key] = IF stored[key] = NoSet THEN NoSet ELSE Gone]
    /\ lastGet' = NoGet
    /\ UNCHANGED <<storage, req, now, authLost, loggedOut, notified, helpers>>

\* requestCache.clear(), also what cachedApiService.clearCache calls
CClear ==
    /\ cache' = CacheClear(cache)
    /\ stored' = [k \in Keys |-> IF stored[k] = NoSet THEN NoSet ELSE Gone]
    /\ lastGet' = NoGet
    /\ UNCHANGED <<storage, req, now, authLost, loggedOut, notified, helpers>>

\* a millisecond passes
Tick ==
    /\ now < MaxTime
    /\ now' = now + 1
    /\ lastGet' = NoGet
    /\ UNCHANGED <<storage, req, cache, authLost, loggedOut, notified, stored, helpers>>

CacheNext ==
    \/ \E k \in Keys, d \in Payloads, t \in 0..MaxTtl : CSet(k, d, t)
    \/ \E k \in Keys : CGet(k)
    \/ \E k \in Keys : CDelete(k)
    \/ CClear
    \/ Tick

SpecCache == Init /\ [][CacheNext]_vars

\* ------------------------------------------- cachedApiService.get, in time
\* config.ttl is optional: RequestCache.set falls back to its default
NoTtl == -1
TtlArgs == {1, NoTtl}
\* the configs of a call; ttl is read only when the cache is on
GetConfigs ==
    {[cacheOn |-> TRUE, ttl |-> t] : t \in TtlArgs} \cup {[cacheOn |-> FALSE, ttl |-> NoTtl]}
\* the urls called: the first call names the url "k1"
GetKeys == IF gets = <<>> THEN {"k1"} ELSE Keys
EffectiveTtl(arg) == IF arg = NoTtl THEN DefaultTtl ELSE arg

\* a write-back that ignores config.cache
StoreResultAlways(c, call, data, t) ==
    CacheSet(c, call.key, data, EffectiveTtl(call.ttl), t)

\* if (config?.cache !== false) requestCache.set(cacheKey, data, config?.ttl)
StoreResult(c, call, data, t) ==
    IF call.cacheOn THEN CacheSet(c, call.key, data, EffectiveTtl(call.ttl), t)
    ELSE c

\* cachedApiService.get(url, {params, cache, ttl}) up to its await: the lookup,
\* and either the return of the cached payload or the start of the GET
GetCall(key, cacheOn, ttl) ==
    /\ Len(gets) < MaxCalls
    /\ LET cached == IF cacheOn THEN CacheGetValue(cache, key, now) ELSE Null
           call == [key |-> key, cacheOn |-> cacheOn, ttl |-> ttl, at |-> now,
                    pc |-> "wire", ret |-> NoData, net |-> TRUE]
       IN /\ cache' = IF cacheOn THEN CacheGetEvict(cache, key, now) ELSE cache
          /\ gets' = Append(gets,
                        IF cacheOn /\ Truthy(cached)
                        THEN [call EXCEPT !.pc = "done", !.ret = cached, !.net = FALSE]
                        ELSE call)
          /\ lastGet' = IF cacheOn THEN [key |-> key, at |-> now, ret |-> cached]
                        ELSE NoGet
    /\ UNCHANGED <<storage, req, now, authLost, notified, loggedOut, fault, stored, rt, bt, subs>>

\* apiService.get resolves with data: the write-back and the return
GetResolve(i, data) ==
    /\ i \in DOMAIN gets
    /\ gets[i].pc = "wire"
    /\ gets' = [gets EXCEPT ![i].pc = "done", ![i].ret = data]
    /\ cache' = StoreResult(cache, gets[i], data, now)
    /\ stored' = IF gets[i].cacheOn
                 THEN [stored EXCEPT ![gets[i].key] =
                         [data |-> data, at |-> now, ttl |-> EffectiveTtl(gets[i].ttl)]]
                 ELSE stored
    /\ lastGet' = NoGet
    /\ UNCHANGED <<storage, req, now, authLost, notified, loggedOut, fault, rt, bt, subs>>

\* apiService.get rejects: the await throws and nothing is written
GetReject(i) ==
    /\ i \in DOMAIN gets
    /\ gets[i].pc = "wire"
    /\ gets' = [gets EXCEPT ![i].pc = "failed"]
    /\ lastGet' = NoGet
    /\ UNCHANGED <<storage, req, cache, now, authLost, notified, loggedOut, fault, stored, rt, bt, subs>>

GetNext ==
    \/ \E k \in GetKeys, c \in GetConfigs : GetCall(k, c.cacheOn, c.ttl)
    \/ \E i \in 1..MaxCalls, d \in Payloads : GetResolve(i, d)
    \/ \E i \in 1..MaxCalls : GetReject(i)
    \/ Tick

\* the calls need no credentials: the page is logged out
InitGet == Init /\ storage = EmptyStorage

SpecGet == InitGet /\ [][GetNext]_vars

\* --------------------------------------------------------- ApiService.retry
Errors == {"e1", "e2"}    \* what a request can reject with

\* a loop that runs one more time
InLoopOnceMore(i, maxRetries) == i <= maxRetries + 1

\* for (...; i <= maxRetries; ...)
InLoop(i, maxRetries) == i <= maxRetries

\* if (i < maxRetries): a failed attempt is followed by a wait
WaitsAfter(i, maxRetries) == i < maxRetries

\* a wait that grows by delay per attempt
BackoffLinear(delay, i) == delay * (i + 1)

\* delay * Math.pow(2, i)
Backoff(delay, i) == delay * 2^i

\* i++ and the loop test: the next request() is invoked, or the loop is left
\* and lastError is thrown
Iterate(r) ==
    IF InLoop(r.i + 1, r.maxRetries)
    THEN [r EXCEPT !.pc = "calling", !.i = r.i + 1, !.calls = r.calls + 1]
    ELSE [r EXCEPT !.pc = "rejected", !.i = r.i + 1, !.thrown = r.lastError]

\* retry(request, maxRetries, delay): i = 0 and the first request() is invoked
RetryCall(maxRetries, delay) ==
    /\ rt.pc = "idle"
    /\ rt' = Iterate([IdleRetry EXCEPT !.maxRetries = maxRetries, !.delay = delay,
                                       !.i = -1])
    /\ UNCHANGED <<storage, req, cache, now, authLost, notified, loggedOut, fault, lastGet, stored,
                   gets, bt, subs>>

\* request() resolved: return await request()
RetryResolved ==
    /\ rt.pc = "calling"
    /\ rt' = [rt EXCEPT !.pc = "resolved"]
    /\ UNCHANGED <<storage, req, cache, now, authLost, notified, loggedOut, fault, lastGet, stored,
                   gets, bt, subs>>

\* request() rejected with e: the catch block
RetryRejected(e) ==
    /\ rt.pc = "calling"
    /\ LET r == [rt EXCEPT !.errs = Append(rt.errs, e), !.lastError = e] IN
       rt' = IF WaitsAfter(r.i, r.maxRetries)
             THEN [r EXCEPT !.pc = "waiting",
                            !.waits = Append(r.waits, Backoff(r.delay, r.i))]
             ELSE Iterate(r)
    /\ UNCHANGED <<storage, req, cache, now, authLost, notified, loggedOut, fault, lastGet, stored,
                   gets, bt, subs>>

\* the setTimeout of the catch block fires
RetryTimer ==
    /\ rt.pc = "waiting"
    /\ rt' = Iterate(rt)
    /\ UNCHANGED <<storage, req, cache, now, authLost, notified, loggedOut, fault, lastGet, stored,
                   gets, bt, subs>>

RetryNext ==
    \/ \E m \in 0..MaxRetries, d \in 1..MaxDelay : RetryCall(m, d)
    \/ RetryResolved
    \/ \E e \in Errors : RetryRejected(e)
    \/ RetryTimer

SpecRetry == Init /\ [][RetryNext]_vars

\* --------------------------------------------------------- ApiService.batch
Values == {"v1", "v2"}    \* what an operation can resolve with

\* requests.map((request) => request()): every operation is invoked, in input
\* order, and returns its promise
StartAll(n) == [i \in 1..n |-> [st |-> "pending", val |-> "none"]]

AllSettled(ops) == \A i \in DOMAIN ops : ops[i].st \in {"fulfilled", "rejected"}

RejectedOps(ops) == {i \in DOMAIN ops : ops[i].st = "rejected"}

\* the rejected result of the highest index
LastRejected(ops) == CHOOSE i \in RejectedOps(ops) : \A j \in RejectedOps(ops) : j <= i

\* results.map visits the results from index 0 up: the first rejected one
FirstRejected(ops) == CHOOSE i \in RejectedOps(ops) : \A j \in RejectedOps(ops) : i <= j

\* batch(requests)
BatchCall(n) ==
    /\ bt.pc = "idle"
    /\ bt' = [IdleBatch EXCEPT !.pc = "running", !.n = n, !.ops = StartAll(n)]
    /\ UNCHANGED <<storage, req, cache, now, authLost, notified, loggedOut, fault, lastGet, stored,
                   gets, rt, subs>>

\* the promise of operation i fulfils with v
OpFulfilled(i, v) ==
    /\ bt.pc = "running"
    /\ i \in DOMAIN bt.ops
    /\ bt.ops[i].st = "pending"
    /\ bt' = [bt EXCEPT !.ops[i] = [st |-> "fulfilled", val |-> v],
                        !.order = Append(bt.order, i)]
    /\ UNCHANGED <<storage, req, cache, now, authLost, notified, loggedOut, fault, lastGet, stored,
                   gets, rt, subs>>

\* the promise of operation i rejects with e
OpRejected(i, e) ==
    /\ bt.pc = "running"
    /\ i \in DOMAIN bt.ops
    /\ bt.ops[i].st = "pending"
    /\ bt' = [bt EXCEPT !.ops[i] = [st |-> "rejected", val |-> e],
                        !.order = Append(bt.order, i)]
    /\ UNCHANGED <<storage, req, cache, now, authLost, notified, loggedOut, fault, lastGet, stored,
                   gets, rt, subs>>

\* Promise.allSettled resolved: results.map returns the values, or logs the
\* first rejected result (with its 0-based index) and throws its reason
BatchSettled ==
    /\ bt.pc = "running"
    /\ AllSettled(bt.ops)
    /\ bt' = IF RejectedOps(bt.ops) = {}
             THEN [bt EXCEPT !.pc = "resolved",
                             !.result = [i \in DOMAIN bt.ops |-> bt.ops[i].val]]
             ELSE LET f == FirstRejected(bt.ops) IN
                  [bt EXCEPT !.pc = "rejected",
                             !.logged = <<[index |-> f - 1, reason |-> bt.ops[f].val]>>,
                             !.thrown = bt.ops[f].val]
    /\ UNCHANGED <<storage, req, cache, now, authLost, notified, loggedOut, fault, lastGet, stored,
                   gets, rt, subs>>

BatchNext ==
    \/ \E n \in 1..MaxOps : BatchCall(n)
    \/ \E i \in 1..MaxOps, v \in Values : OpFulfilled(i, v)
    \/ \E i \in 1..MaxOps, e \in Errors : OpRejected(i, e)
    \/ BatchSettled

SpecBatch == Init /\ [][BatchNext]_vars

\* -------------------------------------------------------- AuthStateManager
Listeners == {"l1", "l2"} \* listener references

\* what localStorage can hold under the three keys
Storages ==
    [accessToken : {Absent, "a0"}, refreshToken : {Absent, "r0"}, user : {Absent, "u0"}]

\* this.listeners.indexOf(listener): 0 stands for -1
IndexOf(list, l) ==
    IF \E i \in DOMAIN list : list[i] = l
    THEN CHOOSE i \in DOMAIN list : list[i] = l /\ \A j \in 1..(i - 1) : list[j] # l
    ELSE 0

\* this.listeners.splice(index, 1)
Splice(list, index) == SubSeq(list, 1, index - 1) \o SubSeq(list, index + 1, Len(list))

\* a forEach without the try/catch: the first exception ends it and escapes
ForEachUncaught(list, pair, throwers) ==
    LET first == IF \E i \in DOMAIN list : list[i] \in throwers
                 THEN CHOOSE i \in DOMAIN list :
                        list[i] \in throwers /\ \A j \in 1..(i - 1) : list[j] \notin throwers
                 ELSE Len(list)
    IN [calls |-> [i \in 1..first |-> [l |-> list[i], auth |-> pair.auth, user |-> pair.user,
                                      threw |-> list[i] \in throwers]],
        logged |-> 0,
        propagated |-> \E i \in DOMAIN list : list[i] \in throwers]

\* this.listeners.forEach((listener) => { try { listener(isAuthenticated, user) }
\* catch (error) { console.error(...) } })
ForEach(list, pair, throwers) ==
    [calls |-> [i \in DOMAIN list |-> [l |-> list[i], auth |-> pair.auth, user |-> pair.user,
                                      threw |-> list[i] \in throwers]],
     logged |-> Cardinality({i \in DOMAIN list : list[i] \in throwers}),
     propagated |-> FALSE]

\* addListener(listener)
addListener(l) ==
    /\ Len(subs.list) < MaxListeners
    /\ subs' = [list |-> Append(subs.list, l), note |-> NoNote]
    /\ UNCHANGED <<storage, req, cache, now, authLost, notified, loggedOut, fault, lastGet, stored,
                   gets, rt, bt>>

\* removeListener(listener)
removeListener(l) ==
    /\ LET index == IndexOf(subs.list, l) IN
       subs' = [list |-> IF index > 0 THEN Splice(subs.list, index) ELSE subs.list,
                note |-> [NoNote EXCEPT !.op = "remove", !.l = l]]
    /\ UNCHANGED <<storage, req, cache, now, authLost, notified, loggedOut, fault, lastGet, stored,
                   gets, rt, bt>>

\* localStorage is written: by AuthService, by the interceptor, by another tab
setStorage(st) ==
    /\ storage' = st
    /\ subs' = [subs EXCEPT !.note = NoNote]
    /\ UNCHANGED <<req, cache, now, authLost, notified, loggedOut, fault, lastGet, stored, gets, rt, bt>>

\* notifyStateChange(): the listeners in throwers throw, those in clearers call
\* authService.clearLocalStorage() (a logout handler) when they are invoked
notify(throwers, clearers) ==
    /\ LET done == ForEach(subs.list, notifyStateChange(storage), throwers) IN
       /\ subs' = [subs EXCEPT !.note = [op |-> "notify", l |-> "none", pre |-> storage,
                                         before |-> subs.list, calls |-> done.calls, logged |-> done.logged,
                                         propagated |-> done.propagated]]
       /\ storage' = IF \E i \in DOMAIN done.calls :
                            done.calls[i].l \in clearers /\ ~done.calls[i].threw
                      THEN clearLocalStorage(storage)
                      ELSE storage
    /\ UNCHANGED <<req, cache, now, authLost, notified, loggedOut, fault, lastGet, stored, gets, rt, bt>>

\* what a listener does to the list from inside its callback
Effects == {"none", "removeSelf", "removeOther", "add"}

Other(l) == CHOOSE m \in Listeners : m # l

\* the list after the callback of l ran with effect e
AfterCallback(list, l, e) ==
    LET gone == IF e = "removeSelf" THEN l ELSE Other(l)
        index == IndexOf(list, gone)
    IN CASE e = "none" -> list
         [] e \in {"removeSelf", "removeOther"} ->
              IF index > 0 THEN Splice(list, index) ELSE list
         [] e = "add" ->
              IF Len(list) < MaxListeners THEN Append(list, Other(l)) ELSE list

\* Array.prototype.forEach over an array its callbacks change: the indices
\* 1..len0 of the array as it is when each index is reached; an index past
\* the end is skipped
RECURSIVE Visit(_, _, _, _, _, _)
Visit(list, k, len0, calls, pair, effect) ==
    IF k > len0 THEN [list |-> list, calls |-> calls]
    ELSE IF k > Len(list) THEN Visit(list, k + 1, len0, calls, pair, effect)
    ELSE Visit(AfterCallback(list, list[k], effect[list[k]]), k + 1, len0,
               Append(calls, [l |-> list[k], auth |-> pair.auth, user |-> pair.user,
                              threw |-> FALSE]),
               pair, effect)

\* notifyStateChange() with listeners that subscribe or unsubscribe from
\* inside their callbacks
notifyReentrant(effect) ==
    /\ LET done == Visit(subs.list, 1, Len(subs.list), <<>>,
                         notifyStateChange(storage), effect) IN
       subs' = [list |-> done.list,
                note |-> [op |-> "notify", l |-> "none", pre |-> storage,
                          before |-> subs.list, calls |-> done.calls, logged |-> 0,
                          propagated |-> FALSE]]
    /\ UNCHANGED <<storage, req, cache, now, authLost, notified, loggedOut, fault,
                   lastGet, stored, gets, rt, bt>>

\* the keys a storage event of another tab can name: the three keys of the
\* application and a key of no concern
EventKeys == {"accessToken", "refreshToken", "user", "other"}

\* what another tab can store under a key (Absent: removeItem)
EventValues(key) ==
    CASE key = "accessToken" -> {Absent, "a0"}
      [] key = "refreshToken" -> {Absent, "r0"}
      [] key = "user" -> {Absent, "u0"}
      [] key = "other" -> {"x"}

\* the 'storage' listener of initialize(): another tab changed key to v
onStorageEvent(key, v) ==
    /\ key # "other" => v # storage[key]
    /\ storage' = IF key = "other" THEN storage ELSE [storage EXCEPT ![key] = v]
    /\ subs' = IF key = "accessToken" \/ key = "user"
               THEN LET done == ForEach(subs.list, notifyStateChange(storage'), {}) IN
                    [subs EXCEPT !.note = [op |-> "notify", l |-> "none", pre |-> storage',
                                           before |-> subs.list, calls |-> done.calls, logged |-> done.logged,
                                           propagated |-> done.propagated]]
               ELSE [subs EXCEPT !.note = [NoNote EXCEPT !.op = "event", !.l = key]]
    /\ UNCHANGED <<req, cache, now, authLost, notified, loggedOut, fault, lastGet, stored, gets, rt, bt>>

ListenerNext ==
    \/ \E k \in EventKeys, v \in {Absent, "a0", "r0", "u0", "x"} :
            v \in EventValues(k) /\ onStorageEvent(k, v)
    \/ \E l \in Listeners : addListener(l)
    \/ \E l \in Listeners : removeListener(l)
    \/ \E st \in Storages : setStorage(st)
    \/ \E t \in SUBSET Listeners, c \in SUBSET Listeners : notify(t, c)
    \/ \E e \in [Listeners -> Effects] : notifyReentrant(e)

SpecListeners == Init /\ [][ListenerNext]_vars

\* ------------------------------------ one page, one request at a time, a clock
\* const fiveMinutes = 5 * 60 * 1000, in ticks of the clock
Lookahead == 1

\* payload.exp of a token: the token the page loaded with expires during the
\* run, a token issued by a refresh does not
TokenExp(token) == IF token = "a0" THEN 2 ELSE MaxTime + Lookahead + 1

\* AuthService.isTokenExpiringSoon() at time t
ExpiringSoon(st, t) == isTokenExpiringSoon(st, TokenExp(st.accessToken) - t < Lookahead)

\* useAuth.initializeAuth: with a token and a user stored the profile is
\* fetched; any failure of the fetch ends in clearLocalStorage()
initializeAuth(r) ==
    /\ Free(r)
    /\ isAuthenticated(storage) /\ getLocalUser(storage) # Null
    /\ req' = [req EXCEPT ![r] = Send(req[r], "init", "k1")]
    /\ UNCHANGED <<storage, cache, now, authLost, loggedOut, notified, lastGet, stored, helpers>>

PageNext ==
    \/ Tick
    \/ \E r \in Req, k \in AuthKeys : Quiescent /\ cachedGet(r, k)
    \/ \E r \in Req : Quiescent /\ updateProfile(r)
    \/ \E r \in Req : Quiescent /\ login(r)
    \/ \E r \in Req : Quiescent /\ logout(r)
    \/ \E r \in Req : Quiescent /\ initializeAuth(r)
    \/ \E r \in Req : Quiescent /\ autoRefreshToken(r, ExpiringSoon(storage, now))
    \/ \E r \in Req, rsp \in [status : {200, 401, 500}, data : {"p1", "u1", "tokens",
                                   "notokens", "ok", "a1", "err"}] : OnResponse(r, rsp)
    \/ \E r \in Req : OnRefreshOk(r)
    \/ \E r \in Req : OnRefreshFail(r)
    \/ \E r \in Req : Return(r)

SpecPage == Init /\ [][PageNext]_vars

\* ------------------------------ cachedApiService.get against invalidation
\* the mark of an invalidation in stored: n calls had been issued before it
InvalidatedAfter(n) == [Gone EXCEPT !.at = n]

\* cachedApiService.deleteCache(url, params)
deleteCache(key) ==
    /\ cache' = CacheDelete(cache, key)
    /\ stored' = [stored EXCEPT ![key] = InvalidatedAfter(Len(gets))]
    /\ lastGet' = NoGet
    /\ UNCHANGED <<storage, req, now, authLost, notified, loggedOut, gets, rt, bt, subs, fault>>

\* cachedApiService.clearCache()
clearCache ==
    /\ cache' = CacheClear(cache)
    /\ stored' = [k \in Keys |-> InvalidatedAfter(Len(gets))]
    /\ lastGet' = NoGet
    /\ UNCHANGED <<storage, req, now, authLost, notified, loggedOut, gets, rt, bt, subs, fault>>

InvalidationNext ==
    \/ \E k \in AuthKeys, c \in GetConfigs : GetCall(k, c.cacheOn, c.ttl)
    \/ \E i \in 1..MaxCalls, d \in Payloads : GetResolve(i, d)
    \/ \E i \in 1..MaxCalls : GetReject(i)
    \/ \E k \in AuthKeys : deleteCache(k)
    \/ clearCache

SpecInvalidation == InitGet /\ [][InvalidationNext]_vars

\* ------------------------------------- the ApiError of the response interceptor
Undef == "undefined"      \* a field that is not there

\* error.response.data: nothing, a text (an html error page), or a JSON object
\* with or without message, code and details
NoBody == [kind |-> "none", message |-> Undef, code |-> Undef, details |-> Undef]
ServerBodies ==
    {NoBody, [NoBody EXCEPT !.kind = "text"]}
      \cup [kind : {"json"}, message : {Undef, "", "srv"}, code : {Undef, "E1"},
            details : {Undef, "det"}]

\* the errors axios hands to the interceptor: without a response (network
\* failure, timeout, abort) or with a non-2xx response
AxiosErrors ==
    [status : {0}, data : {NoBody}, message : {"Network Error", Undef},
     code : {"ERR_NETWORK", Undef}]
      \cup [status : {401, 500}, data : ServerBodies,
            message : {"Request failed with status code"}, code : {"ERR_BAD_RESPONSE"}]

\* a || b
Or(a, b) == IF a \in {Undef, ""} THEN b ELSE a

\* error.response?.data?.f
DataField(e, f) == IF e.data.kind = "json" THEN e.data[f] ELSE Undef

\* the literal the message falls back to
FallbackMessage == "request failed"

\* the error handed on as it came
RawError(e) ==
    [message |-> e.message, code |-> e.code, details |-> [from |-> "none", of |-> e.data]]

\* const apiError = { message: data.message || error.message || literal,
\*                    code: data.code || error.code,
\*                    details: data.details || data }
\* details.from tells which operand of || was taken out of details.of
NormalizedError(e) ==
    [message |-> Or(Or(DataField(e, "message"), e.message), FallbackMessage),
     code |-> Or(DataField(e, "code"), e.code),
     details |-> [from |-> IF DataField(e, "details") \notin {Undef, ""} THEN "details"
                           ELSE IF e.data.kind # "none" THEN "payload" ELSE "none",
                  of |-> e.data]]

\* The response error interceptor rejects.  e1 is the error of the request:
\*   direct          no 401, or a 401 of a request already marked _retry
\*   noRefreshToken  a 401 and no refresh token stored
\*   refreshFailed   a 401, the refresh call failed: the ApiError of e1
\*   replayFailed    a 401, the refresh call succeeded and the replay failed
\*                   with e2: the replay's own pass through the interceptor
\*                   built the ApiError and the first pass returns it
Reject(origin, e1, e2) ==
    /\ origin # "direct" => e1.status = 401
    /\ origin # "replayFailed" => e2 = e1
    /\ fault' = [origin |-> origin, first |-> e1,
                 error |-> IF origin = "replayFailed" THEN e2 ELSE e1,
                 thrown |-> NormalizedError(IF origin = "replayFailed" THEN e2 ELSE e1)]
    /\ UNCHANGED <<storage, req, cache, now, authLost, notified, loggedOut, lastGet,
                   stored, gets, rt, bt, subs>>

ErrorNext ==
    \E origin \in {"direct", "noRefreshToken", "refreshFailed", "replayFailed"},
       e1 \in AxiosErrors, e2 \in AxiosErrors : Reject(origin, e1, e2)

SpecError == Init /\ [][ErrorNext]_vars


\* ===================================================================== claims
SettledPc == {"done", "failed"}

\* a refresh network call is on the wire for request r: the axios.post of the
\* interceptor, or the POST of AuthService.refreshToken
RefreshOutstanding(r) ==
    \/ req[r].pc = "refreshing"
    \/ req[r].kind = "refresh" /\ req[r].pc \in {"sent", "replayed"}

\* C1: at most one token-refresh network call is outstanding at any time,
\* however many requests received a 401 before a refresh resolved.
SingleRefreshInFlight ==
    Cardinality({r \in Req : RefreshOutstanding(r)}) <= 1

\* C2: a request is sent at most twice; it is marked retried before its refresh
\* call is issued, and a refresh call is only ever issued for a request that
\* was sent once, so a replay answered 401 fails without refresh or replay.
RetriedAtMostOnce ==
    \A r \in Req :
        /\ req[r].sends <= 2
        /\ req[r].pc = "refreshing" => req[r].retry /\ req[r].sends = 1
        /\ req[r].pc = "replayed" => req[r].retry /\ req[r].sends = 2
        /\ req[r].pc \in SettledPc /\ req[r].sends = 2 /\ req[r].resp.status = 401
              => req[r].pc = "failed"

\* C2 witness: a replay was answered 401 and the request failed
ReplayRejected ==
    \E r \in Req : /\ req[r].pc = "failed" /\ req[r].sends = 2
                   /\ req[r].retry /\ req[r].resp.status = 401

\* what the caller of a request sees once a replay was answered 2xx: the
\* promise resolves with the payload of the replay, after exactly two sends
ReplayPayloadReachesCaller ==
    \A r \in Req :
        req[r].pc \in SettledPc /\ req[r].retry /\ req[r].resp.status = 200
            => /\ req[r].pc = "done"
               /\ req[r].err = "none"
               /\ req[r].result = req[r].resp.data
               /\ req[r].sends = 2
               /\ req[r].rf = "ok"

\* the step in which the refresh call of request r resolves: the new access
\* token is in storage and the request is sent once more
RefreshSuccessStoresAndReplays ==
    \A r \in Req :
        req[r].pc = "refreshing" /\ req'[r].pc # "refreshing" /\ req'[r].rf = "ok"
            => /\ storage'.accessToken = "a1"
               /\ req'[r].pc = "replayed"
               /\ req'[r].sends = req[r].sends + 1

\* C3: a 401 with a refresh token stored, a refresh that succeeds and a replay
\* that succeeds: the new access token is stored, the request is sent again
\* exactly once and the caller's promise resolves with the replay's payload,
\* never rejecting with the intermediate 401.
TransparentRefresh ==
    []ReplayPayloadReachesCaller /\ [][RefreshSuccessStoresAndReplays]_vars

\* C3 witness: a GET that was replayed after a refresh resolved with a payload
ReplayedGetResolved ==
    \E r \in Req : /\ req[r].pc = "done" /\ req[r].kind = "get" /\ req[r].retry
                   /\ req[r].rf = "ok" /\ req[r].result = "p1"

\* the step in which a refresh call fails: the axios.post of the interceptor
\* rejects, or AuthService.refreshToken throws inside autoRefreshToken
RefreshFailureHandled ==
    \E r \in Req :
        \/ req[r].pc = "refreshing" /\ req'[r].rf = "failed"
        \/ /\ req'[r].kind = "refresh" /\ req'[r].pc = "failed"
           /\ req[r].pc # "failed"

RefreshFailureIsAuthExpired ==
    \A r \in Req :
        req[r].pc = "failed" /\ req[r].rf = "failed"
            => req[r].err = "AuthExpired" /\ req[r].sends = 1


\* C6: after a failed refresh the listeners are invoked with (false, null)
\* without a further user action: once the client has come to rest after the
\* failure, the broadcast has happened.
FailedRefreshIsBroadcast ==
    authLost /\ Quiescent => notified = [auth |-> FALSE, user |-> Null]

\* C7: from the handling of a refresh failure until the next login, the access
\* token, the refresh token and the user snapshot are absent and the request
\* cache is empty.
NoPartialAuthAfterFailedRefresh ==
    authLost => storage = EmptyStorage /\ cache = EmptyCache

\* request r received a 401 while no refresh token was stored: it was marked
\* retried and rejected with no refresh call and no replay
Rejected401WithoutRefreshToken(r) ==
    /\ req[r].pc = "failed" /\ req[r].retry /\ req[r].rf = "none"
    /\ req[r].sends = 1 /\ req[r].resp.status = 401

\* C8: a 401 with no refresh token stored fails at once with AuthExpired and
\* triggers the global logout: credentials cleared, listeners notified.
NoRefreshTokenIsAuthExpired ==
    \A r \in Req :
        Rejected401WithoutRefreshToken(r)
            => /\ req[r].err = "AuthExpired"
               /\ storage = EmptyStorage
               /\ notified = [auth |-> FALSE, user |-> Null]

\* C9: when logout() completes, whether the server call succeeded, failed or
\* was skipped, the three keys are absent and the request cache is empty.
LogoutClearsEverything ==
    \A r \in Req :
        req[r].kind = "logout" /\ req[r].pc \in SettledPc
            => storage = EmptyStorage /\ cache = EmptyCache

\* C10: an entry stored by set(key, payload, T) at t0 and neither overwritten
\* nor invalidated is returned unchanged by a get(key) at any time in
\* [t0, t0 + T) and is not returned by a get(key) at a time after t0 + T.
CacheHonoursTtl ==
    lastGet # NoGet /\ stored[lastGet.key] # NoSet =>
        LET s == stored[lastGet.key] IN
        /\ s.at <= lastGet.at /\ lastGet.at < s.at + s.ttl => lastGet.ret = s.data
        /\ lastGet.at > s.at + s.ttl => lastGet.ret = Null

\* C10 witness: a get strictly inside the window, after the time of the set,
\* returned the stored payload
HitInsideTtl ==
    /\ lastGet # NoGet /\ stored[lastGet.key] # NoSet
    /\ stored[lastGet.key].at < lastGet.at
    /\ lastGet.at < stored[lastGet.key].at + stored[lastGet.key].ttl
    /\ lastGet.ret = stored[lastGet.key].data


\* the latest step was a get(key) and the key holds a set() that was neither
\* overwritten nor invalidated
GetOfStored == lastGet # NoGet /\ stored[lastGet.key] \notin {NoSet, Gone}

\* C11: get(key) returns the payload exactly when an entry exists and
\* now < storedAt + ttl; otherwise, also at now = storedAt + ttl, it returns
\* nothing and the entry is no longer in the cache.
GetExactlyWhenFresh ==
    lastGet # NoGet =>
        LET s == stored[lastGet.key]
            fresh == GetOfStored /\ lastGet.at < s.at + s.ttl
        IN /\ fresh => lastGet.ret = s.data
           /\ ~fresh => lastGet.ret = Null /\ cache[lastGet.key] = NoEntry

\* the next get of an invalidated key misses
MissAfterInvalidation ==
    lastGet # NoGet /\ stored[lastGet.key] = Gone => lastGet.ret = Null

\* a delete of one key leaves the entries of the other keys as they were
DeleteLeavesOtherKeys ==
    \A k \in Keys :
        CDelete(k) => \A j \in Keys \ {k} : cache'[j] = cache[j]

\* C12: after the cache is invalidated for key K (delete, deleteCache, clear)
\* the next get(K) misses whatever TTL the entry had left, and a single-key
\* invalidation leaves the entries under the other keys untouched.
InvalidationIsImmediate ==
    []MissAfterInvalidation /\ [][DeleteLeavesOtherKeys]_vars

\* C12 witness: a get missed on an invalidated key while the other key still
\* holds its entry
MissedInvalidatedKeptOther ==
    /\ lastGet # NoGet /\ stored[lastGet.key] = Gone /\ lastGet.ret = Null
    /\ \E j \in Keys \ {lastGet.key} :
          stored[j] \notin {NoSet, Gone} /\ cache[j] # NoEntry


\* call b was issued after call a for the same url and params, both with
\* caching on, a fetched its payload from the network and b was issued less
\* than a's ttl after a
SecondWithinTtl(a, b) ==
    /\ a < b
    /\ gets[a].key = gets[b].key
    /\ gets[a].cacheOn /\ gets[b].cacheOn
    /\ gets[a].pc = "done" /\ gets[b].pc = "done"
    /\ gets[a].net
    /\ gets[b].at < gets[a].at + EffectiveTtl(gets[a].ttl)

\* C13: of two cached gets for the same url and params, the second within the
\* ttl of the first, only the first reaches the network and the second returns
\* the first's payload: for every payload, and also when the second is issued
\* before the first resolved.
SecondGetServedFromCache ==
    \A a, b \in DOMAIN gets :
        SecondWithinTtl(a, b) => ~gets[b].net /\ gets[b].ret = gets[a].ret

\* a step of a call made with cache: false
UncachedStep ==
    \E i \in DOMAIN gets' :
        /\ ~gets'[i].cacheOn
        /\ (i \notin DOMAIN gets \/ gets[i] # gets'[i])

\* C14: a get with the cache disabled always performs the network call, never
\* returns a cached payload, and leaves the contents of the cache as they were.
UncachedGetBypassesCache ==
    /\ [](\A i \in DOMAIN gets : ~gets[i].cacheOn => gets[i].net)
    /\ [][UncachedStep => cache' = cache]_vars

\* C14 witness: a get with the cache disabled resolved with one payload while
\* the cache holds another, unexpired payload under its key
UncachedResolvedBesideEntry ==
    \E i \in DOMAIN gets :
        /\ ~gets[i].cacheOn /\ gets[i].pc = "done"
        /\ CacheGetValue(cache, gets[i].key, now) \notin {Null, gets[i].ret}


\* the error of the latest failed invocation
LastError == rt.errs[Len(rt.errs)]

\* C15: retry invokes the request sequentially, stops at the first success,
\* makes at most maxRetries + 1 invocations and rejects with the last error
\* when all of them fail; k <= maxRetries failures followed by a success are
\* exactly k + 1 invocations.
RetryInvocations ==
    rt.pc # "idle" =>
        /\ rt.calls <= rt.maxRetries + 1
        /\ rt.pc \in {"calling", "resolved"} => rt.calls = Len(rt.errs) + 1
        /\ rt.pc \in {"waiting", "rejected"} => rt.calls = Len(rt.errs)
        /\ rt.pc = "resolved" => Len(rt.errs) <= rt.maxRetries
        /\ rt.pc = "rejected" =>
              /\ rt.calls = rt.maxRetries + 1
              /\ rt.thrown = LastError

\* C15 witness: the request failed maxRetries times and then succeeded
ResolvedOnLastAttempt ==
    /\ rt.pc = "resolved"
    /\ rt.maxRetries >= 2
    /\ Len(rt.errs) = rt.maxRetries

RECURSIVE SumSeq(_)
SumSeq(q) == IF q = <<>> THEN 0 ELSE q[1] + SumSeq(Tail(q))

\* C16: the wait after failed attempt i (from 0) is delay * 2^i; there is no
\* wait before the first attempt, after a success or after the final failed
\* attempt; k failures followed by a success wait delay * (2^k - 1) in total.
RetryWaits ==
    rt.pc # "idle" =>
        /\ \A j \in DOMAIN rt.waits : rt.waits[j] = rt.delay * 2^(j - 1)
        /\ rt.pc \in {"calling", "resolved", "waiting"} => Len(rt.waits) = Len(rt.errs)
        /\ rt.pc = "rejected" => Len(rt.waits) = Len(rt.errs) - 1
        /\ rt.pc = "resolved" =>
              SumSeq(rt.waits) = rt.delay * (2^Len(rt.errs) - 1)

\* C16 witness: three failures, three waits, then the success
ResolvedAfterThreeWaits ==
    /\ rt.pc = "resolved"
    /\ Len(rt.waits) = 3
    /\ SumSeq(rt.waits) = 7 * rt.delay


EveryFailureLogged ==
    bt.pc = "rejected" =>
        \A i \in RejectedOps(bt.ops) :
            \E l \in DOMAIN bt.logged :
                bt.logged[l] = [index |-> i - 1, reason |-> bt.ops[i].val]


\* C19: a notify reads the credentials and the user once and invokes every
\* registered listener, in registration order, with the same pair
\* (isAuthenticated, user or null); isAuthenticated is true exactly when an
\* access token and a user are both stored; a listener that throws keeps no
\* other listener from being invoked and the exception does not reach the
\* caller of notify.
NotifyReachesEveryListener ==
    subs.note.op = "notify" =>
        LET pre == subs.note.pre
            before == subs.note.before
            calls == subs.note.calls
        IN
        /\ \A i \in DOMAIN calls :
              /\ calls[i].auth = (pre.accessToken # Absent /\ pre.user # Absent)
              /\ calls[i].user = IF pre.user = Absent THEN Null ELSE pre.user
        /\ ~subs.note.propagated
        \* a listener registered when notify started and still registered
        \* was invoked
        /\ \A i \in DOMAIN before :
              (\E j \in DOMAIN subs.list : subs.list[j] = before[i]) =>
                  \E c \in DOMAIN calls : calls[c].l = before[i]
        \* in registration order
        /\ subs.list = before =>
              /\ Len(calls) = Len(before)
              /\ \A i \in DOMAIN before : calls[i].l = before[i]

\* C19 witness: the first listener threw, a later one was still invoked, and
\* the pair it got is the one read before a listener cleared the storage
InvokedAfterThrower ==
    /\ subs.note.op = "notify"
    /\ subs.note.logged >= 1
    /\ Len(subs.note.calls) >= 2
    /\ subs.note.calls[1].threw
    /\ subs.note.calls[2].auth /\ ~subs.note.calls[2].threw
    /\ storage # subs.note.pre

\* C20: unsubscribe is idempotent on every list the API can produce, also one
\* that holds a listener twice: removing a listener that is not registered
\* leaves the list as it was, and removing l twice leaves the list that
\* removing l once leaves.
UnsubscribeIdempotent ==
    [][\A l \in Listeners :
          removeListener(l) =>
              /\ IndexOf(subs.list, l) = 0 => subs'.list = subs.list
              /\ (subs.note.op = "remove" /\ subs.note.l = l) => subs'.list = subs.list]_vars


\* C21: every storage event of another tab whose key is a credential key
\* (access token, refresh token) or the user key runs notify, so the listeners
\* of this tab are invoked with the state now in storage; an event for any
\* other key runs no notify.
StorageEventsNotify ==
    [][\A k \in EventKeys :
          (\E v \in EventValues(k) : onStorageEvent(k, v)) =>
              IF k \in {"accessToken", "refreshToken", "user"}
              THEN /\ subs'.note.op = "notify"
                   /\ subs'.note.pre = storage'
                   /\ Len(subs'.note.calls) = Len(subs.list)
              ELSE subs'.note.op # "notify"]_vars


\* C22: before a request is sent, an access token whose expiry lies inside
\* the lookahead window is refreshed first: no request is dispatched with such
\* a token while a refresh token is available.
NoDispatchWithExpiringToken ==
    [][\A r \in Req :
          (req[r].pc = "idle" /\ req'[r].pc = "sent" /\ req'[r].kind # "refresh") =>
              ~ /\ storage.accessToken # Absent
                /\ storage.refreshToken # Absent
                /\ ExpiringSoon(storage, now)]_vars

\* the step belongs to a login, a logout or a token refresh
AuthOperationStep ==
    \E r \in Req :
        /\ req'[r] # req[r]
        /\ \/ req[r].kind \in {"login", "logout", "refresh"} /\ req[r].pc # "idle"
           \/ req'[r].kind \in {"login", "logout", "refresh"} /\ req[r].pc = "idle"
           \/ req[r].pc = "refreshing"

\* C24: the stored access and refresh tokens change only as the effect of a
\* login, a token refresh or a logout; no other operation and no failure of
\* an unrelated request (a profile fetch failing with a network or server
\* error) adds, replaces or removes them.
CredentialsOwnedByAuthOperations ==
    [][(storage'.accessToken # storage.accessToken
          \/ storage'.refreshToken # storage.refreshToken) => AuthOperationStep]_vars


\* the refresh network calls made on behalf of request r: the sends of r when
\* r is the POST of AuthService.refreshToken, and the axios.post of the
\* interceptor
RefreshCalls(r) ==
    (IF req[r].kind = "refresh" THEN req[r].sends ELSE 0)
      + (IF req[r].pc = "refreshing" \/ req[r].rf # "none" THEN 1 ELSE 0)

\* C25: a watchdog tick issues no refresh call when isAuthenticated() is false
\* or the token is not expiring soon, and otherwise triggers a refresh that
\* issues exactly one refresh network call whatever its outcome, a 401 reply
\* of the refresh endpoint included.
WatchdogRefreshesOnce ==
    \A r \in Req :
        (req[r].kind = "refresh" /\ req[r].pc # "idle") => RefreshCalls(r) <= 1


\* C26: the user snapshot never outlives the credentials: wherever the access
\* and the refresh token are absent the stored user is absent too, also when
\* a profile update was in flight while the credentials were cleared; and
\* after a current-user fetch returned, the stored snapshot is what it returned.
SnapshotFollowsCredentials ==
    /\ (storage.accessToken = Absent /\ storage.refreshToken = Absent) =>
            storage.user = Absent
    /\ \A r \in Req :
            (req[r].kind = "init" /\ req[r].pc = "done") => storage.user = req[r].result


\* C27: after logout() completed no access token is in storage until the next
\* successful login, under every interleaving, also when a refresh call (of
\* the 401 handling or of the watchdog) was in flight when logout cleared the
\* storage and succeeds afterwards.
NoTokenAfterLogout == loggedOut => storage.accessToken = Absent


\* C23: every rejection that reaches a caller has the shape {message, code,
\* details}: message is the server's message when there is one and otherwise
\* a transport-level description, never empty; details is the server's
\* details field or, failing that, the raw server payload; for network
\* failures, non-2xx responses, failed replays and failed refreshes alike.
RejectionsAreNormalized ==
    fault.origin # "none" =>
        LET e == fault.error
            t == fault.thrown
            srv == IF e.data.kind = "json" THEN e.data.message ELSE Undef
            det == IF e.data.kind = "json" THEN e.data.details ELSE Undef
        IN /\ DOMAIN t = {"message", "code", "details"}
           /\ t.message \notin {Undef, ""}
           /\ srv \notin {Undef, ""} => t.message = srv
           /\ srv \in {Undef, ""} => t.message \in {e.message, FallbackMessage}
           /\ t.details.of = e.data
           /\ t.details.from = (IF det \notin {Undef, ""} THEN "details"
                                ELSE IF e.data.kind = "none" THEN "none" ELSE "payload")

\* C23 witness: a replay failed without a response and without a message
\* after a 401 that carried a server message
ReplayFailedWithoutMessage ==
    /\ fault.origin = "replayFailed"
    /\ fault.first.data.message = "srv"
    /\ fault.error.status = 0 /\ fault.error.message = Undef
    /\ fault.thrown.message = FallbackMessage


\* call i was issued before the latest invalidation of its key, and nothing
\* was stored under the key since
IssuedBeforeInvalidation(i) ==
    LET s == stored[gets[i].key] IN
    /\ s.ttl = Gone.ttl
    /\ i <= s.at

\* C28: a cached get whose network call was issued before an invalidation of
\* its key (deleteCache, clearCache) and completes after it does not put its
\* response into the cache: after an invalidation the cache never holds a
\* payload that was requested before it.
NoWriteBackAcrossInvalidation ==
    [][\A i \in DOMAIN gets :
          (gets[i].pc = "wire" /\ gets'[i].pc = "done" /\ IssuedBeforeInvalidation(i)) =>
              cache'[gets[i].key] = NoEntry]_vars


\* how often l occurs in a sequence of listeners
Occurrences(q, l) == Cardinality({i \in DOMAIN q : q[i] = l})

\* C29: during one notify a listener that unsubscribes (itself or another
\* listener) or subscribes a listener from inside its callback causes no
\* listener that was registered when the notify started and is still
\* registered to be skipped or to be invoked twice.
ReentrantNotifySkipsNobody ==
    subs.note.op = "notify" =>
        \A l \in Listeners :
            (Occurrences(subs.note.before, l) = 1 /\ Occurrences(subs.list, l) >= 1) =>
                Cardinality({c \in DOMAIN subs.note.calls : subs.note.calls[c].l = l}) = 1


\* C30: login() stores the access token, the refresh token and the user
\* snapshot together exactly when the login response carries an access token,
\* and isAuthenticated() is true afterwards; the step in which a login attempt
\* fails (a rejection by the server, a 401 included, or by the network)
\* leaves the three stored keys as they were.
LoginStoresAllOrNothing ==
    [][\A r \in Req :
          (req[r].kind = "login" /\ req[r].pc \in {"sent", "refreshing", "replayed"}) =>
              /\ req'[r].pc = "failed" => storage' = storage
              /\ req'[r].pc = "done" =>
                    IF req'[r].result = "tokens"
                    THEN storage' = LoggedInStorage /\ isAuthenticated(storage')
                    ELSE storage' = storage]_vars

====
